---- MODULE Spec2Model ----
(***************************************************************************)
(* ContestTrack: the contest importer (fetchAllContests and                *)
(* fetchAndStoreContests), the notification scheduler                      *)
(* (processContestNotifications) and the two request handlers that write   *)
(* the stores the scheduler reads (PUT /api/notification-preferences,      *)
(* POST /api/contest-reminders).                                           *)
(*                                                                         *)
(* Time is in milliseconds, as in the code (Date.getTime()).  Every await  *)
(* of the code is a step boundary: a storage call is one atomic step, and  *)
(* the other handlers may run between two steps of a handler.              *)
(***************************************************************************)
EXTENDS Integers, Sequences, FiniteSets, TLC

VARIABLES
  clock,      \* the wall clock (ms), what new Date() returns
  booted,     \* registerRoutes has finished the startup import and armed the timers
  users,      \* the user directory: sequence of user ids, in creation order
  contests,   \* the contest store: sequence of rows, row id = index
  prefs,      \* the notification_preferences store: sequence of rows, id = index
  reminders,  \* the contest_reminders store: sequence of rows, id = index
  tk,         \* the runs of processContestNotifications, by run slot
  rq,         \* the POST /api/contest-reminders handler of each user
  pq,         \* the PUT /api/notification-preferences handler of each user
  gq,         \* the GET /api/notification-preferences handler of each user
  reg,        \* the POST /api/auth/register handler that creates each user
  imp,        \* the runs of fetchAndStoreContests, by run slot
  attempts,   \* calls of sendContestNotificationEmail per <<user, contest>>
  delivered,  \* the <<user, contest>> pairs for which a send returned true
  faults      \* the number of storage calls that have thrown so far

vars == <<clock, booted, users, contests, prefs, reminders, tk, rq, pq, imp,
          attempts, delivered, faults, gq, reg>>

-----------------------------------------------------------------------------
(* Bounds of the model *)

\* the number of storage calls that throw in one behaviour
MaxFaults == 1
\* the number of import runs a behaviour of the import specifications makes
MaxRuns == 2
\* the clock of the timed specification stops this many ticks after the last start
MaxTailTicks == 2

-----------------------------------------------------------------------------
(* Program constants *)

MsPerMinute == 60 * 1000
MsPerHour == 60 * 60 * 1000
MsPerDay == 24 * MsPerHour

\* a timer armed with "*/15 * * * *"
QuarterHourMinutes == 3 * 5

\* cron.schedule("*/5 * * * *", processContestNotifications)
TickIntervalMinutes == 5
TickInterval == TickIntervalMinutes * MsPerMinute

\* the windows of processContestNotifications: timeUntilStart <= Hi && > Lo
OneHourHi == 60 * 60 * 1000
OneHourLo == 50 * 60 * 1000
ThreeHoursHi == 3 * 60 * 60 * 1000
ThreeHoursLo == 170 * 60 * 1000
OneDayHi == 24 * 60 * 60 * 1000
OneDayLo == 23 * 60 * 60 * 1000

Platforms == {"codeforces", "codechef", "leetcode"}
NotificationTimings == {"1hour", "3hours", "1day"}

\* the time value of an Invalid Date
NaN == -(2^30)

UserIds == {1, 2}

-----------------------------------------------------------------------------
(* Storage: the reads and writes of MemStorage / DatabaseStorage *)

Range(s) == {s[i] : i \in DOMAIN s}

Min(S) == CHOOSE x \in S : \A y \in S : x <= y

\* Array.find / select ... limit 1: the least of the matching ids, 0 for undefined
First(hits) == IF hits = {} THEN 0 ELSE Min(hits)

\* storage.getNotificationPreferences(userId): id of the row, 0 for undefined
GetNotificationPreferences(rows, userId) ==
  First({i \in DOMAIN rows : rows[i].userId = userId})

\* storage.getContestReminderByUserAndContest: id of the row, 0 for undefined
GetContestReminderByUserAndContest(rows, userId, contestId) ==
  First({i \in DOMAIN rows : rows[i].userId = userId /\ rows[i].contestId = contestId})

\* an insert that drops the reminded field: the column's default, false, is stored
CreateContestReminderDefault(rows, userId, contestId, reminded) ==
  Append(rows, [userId |-> userId, contestId |-> contestId, reminded |-> FALSE])

\* an insert that stores the row under the first user, whoever it is for
CreateContestReminderFirstUser(rows, userId, contestId, reminded) ==
  Append(rows, [userId |-> 1, contestId |-> contestId, reminded |-> reminded])

\* an insert into an emptied table: the rows stored before are gone
CreateContestReminderOnly(rows, userId, contestId, reminded) ==
  <<[userId |-> userId, contestId |-> contestId, reminded |-> reminded]>>

\* storage.createContestReminder: the next serial id is the next index
CreateContestReminder(rows, userId, contestId, reminded) ==
  Append(rows, [userId |-> userId, contestId |-> contestId, reminded |-> reminded])

\* storage.updateContestReminder(id, reminded): undefined (no change) without the row
UpdateContestReminder(rows, id, reminded) ==
  IF id \in DOMAIN rows THEN [rows EXCEPT ![id].reminded = reminded] ELSE rows

\* storage.getContestById: whether the row exists
GetContestById(rows, id) == id \in DOMAIN rows

\* ids sorted ascending by start time; equal start times keep id order
RECURSIVE SortByStart(_, _)
SortByStart(rows, ids) ==
  IF ids = {} THEN <<>>
  ELSE LET least == Min({rows[i].startTime : i \in ids})
           first == Min({i \in ids : rows[i].startTime = least})
       IN <<first>> \o SortByStart(rows, ids \ {first})

\* storage.getUpcomingContests(): the rows starting after now, ascending by start
GetUpcomingContests(rows, now) ==
  SortByStart(rows, {i \in DOMAIN rows : rows[i].startTime > now})

\* storage.getAllUsers(): the users of the directory
GetAllUsers(us) == us

-----------------------------------------------------------------------------
(* processContestNotifications *)

TickSlots == {1, 2}

IdleTick ==
  [pc |-> "idle", now |-> 0, list |-> <<>>, ci |-> 0, us |-> <<>>, ui |-> 0,
   rem |-> 0, result |-> "none",
   evald |-> {}, qual |-> {}, errs |-> {}, seen |-> {}, disp |-> {}]

\* a test of the platform's flag that every row passes
PlatformFieldIgnored(pref, platform) == TRUE

\* the field `notify${Platform}` of a preference row; any other name is undefined
PlatformField(pref, platform) ==
  CASE platform = "codeforces" -> pref.notifyCodeforces
    [] platform = "codechef" -> pref.notifyCodechef
    [] platform = "leetcode" -> pref.notifyLeetcode
    [] OTHER -> FALSE

\* the switch with its lower bounds read as >= instead of >
ShouldNotifyClosed(timing, timeUntilStart) ==
  CASE timing = "1hour" -> timeUntilStart <= OneHourHi /\ timeUntilStart >= OneHourLo
    [] timing = "3hours" -> timeUntilStart <= ThreeHoursHi /\ timeUntilStart >= ThreeHoursLo
    [] timing = "1day" -> timeUntilStart <= OneDayHi /\ timeUntilStart >= OneDayLo
    [] OTHER -> FALSE

\* the switch on preferences.notificationTiming; no case matches any other value
ShouldNotify(timing, timeUntilStart) ==
  CASE timing = "1hour" -> timeUntilStart <= OneHourHi /\ timeUntilStart > OneHourLo
    [] timing = "3hours" -> timeUntilStart <= ThreeHoursHi /\ timeUntilStart > ThreeHoursLo
    [] timing = "1day" -> timeUntilStart <= OneDayHi /\ timeUntilStart > OneDayLo
    [] OTHER -> FALSE

\* the pair the run is handling: <<user id, contest id>>
TickPair(t) == <<t.us[t.ui], t.list[t.ci]>>

\* the loops' continuation: the next user, else the next contest, else the end
NextUser(t) ==
  IF t.ui < Len(t.us) THEN [t EXCEPT !.pc = "prefs", !.ui = t.ui + 1, !.rem = 0]
  ELSE IF t.ci < Len(t.list)
       THEN [t EXCEPT !.pc = "users", !.ci = t.ci + 1, !.ui = 0, !.rem = 0]
       ELSE [t EXCEPT !.pc = "idle", !.result = "done", !.rem = 0]

\* a catch block around the loops instead of inside them: the run ends
CatchOutsideLoops(t) ==
  [t EXCEPT !.pc = "idle", !.result = "done", !.rem = 0, !.errs = t.errs \cup {TickPair(t)}]

\* the catch block of the per-user try: log, then the loop goes on
CatchUserError(t) == NextUser([t EXCEPT !.errs = t.errs \cup {TickPair(t)}])

\* const now = new Date(); the call of storage.getUpcomingContests()
TickBegin(i, now) ==
  /\ booted
  /\ tk[i].pc = "idle"
  /\ tk' = [tk EXCEPT ![i] = [IdleTick EXCEPT !.pc = "upcoming", !.now = now]]
  /\ UNCHANGED <<booted, users, contests, prefs, reminders, rq, pq, imp,
                 attempts, delivered, faults, gq, reg>>

\* the timer fires at some moment: the clock is whatever it is
TickStart(i) == TickBegin(i, clock) /\ UNCHANGED clock

\* the result of getUpcomingContests arrives; an empty list ends the run
TickUpcoming(i) ==
  /\ tk[i].pc = "upcoming"
  /\ LET list == GetUpcomingContests(contests, tk[i].now)
     IN tk' = [tk EXCEPT ![i] =
                 IF list = <<>> THEN [@ EXCEPT !.pc = "idle", !.result = "done"]
                 ELSE [@ EXCEPT !.pc = "users", !.list = list, !.ci = 1]]
  /\ UNCHANGED <<clock, booted, users, contests, prefs, reminders, rq, pq, imp,
                 attempts, delivered, faults, gq, reg>>

\* per contest: await storage.getAllUsers(); without users the inner loop is empty
TickUsers(i) ==
  /\ tk[i].pc = "users"
  /\ LET us == GetAllUsers(users)
         t == [tk[i] EXCEPT !.us = us, !.ui = 0]
     IN tk' = [tk EXCEPT ![i] = NextUser(t)]
  /\ UNCHANGED <<clock, booted, users, contests, prefs, reminders, rq, pq, imp,
                 attempts, delivered, faults, gq, reg>>

\* getUpcomingContests or getAllUsers throws: outside the try, the run rejects
TickRejected(i) ==
  /\ tk[i].pc \in {"upcoming", "users"}
  /\ faults < MaxFaults
  /\ faults' = faults + 1
  /\ tk' = [tk EXCEPT ![i] = [@ EXCEPT !.pc = "idle", !.result = "rejected"]]
  /\ UNCHANGED <<clock, booted, users, contests, prefs, reminders, rq, pq, imp,
                 attempts, delivered, gq, reg>>

\* per user: the preferences arrive; the two continue tests and the timing switch
TickPrefs(i) ==
  /\ tk[i].pc = "prefs"
  /\ LET t == [tk[i] EXCEPT !.evald = @ \cup {TickPair(tk[i])}]
         p == GetNotificationPreferences(prefs, t.us[t.ui])
         contest == contests[t.list[t.ci]]
         timeUntilStart == contest.startTime - t.now
     IN tk' = [tk EXCEPT ![i] =
                 IF p = 0 \/ ~prefs[p].emailNotifications THEN NextUser(t)
                 ELSE IF ~PlatformField(prefs[p], contest.platform) THEN NextUser(t)
                 ELSE IF ~ShouldNotify(prefs[p].notificationTiming, timeUntilStart)
                      THEN NextUser(t)
                      ELSE [t EXCEPT !.pc = "reminder", !.qual = @ \cup {TickPair(t)}]]
  /\ UNCHANGED <<clock, booted, users, contests, prefs, reminders, rq, pq, imp,
                 attempts, delivered, faults, gq, reg>>

\* the existing reminder arrives: none, pending, or already reminded
TickReminder(i) ==
  /\ tk[i].pc = "reminder"
  /\ LET t == tk[i]
         r == GetContestReminderByUserAndContest(reminders, TickPair(t)[1], TickPair(t)[2])
     IN tk' = [tk EXCEPT ![i] =
                 IF r = 0 THEN [t EXCEPT !.pc = "create"]
                 ELSE IF ~reminders[r].reminded THEN [t EXCEPT !.pc = "update", !.rem = r]
                 ELSE NextUser([t EXCEPT !.seen = @ \cup {TickPair(t)}])]
  /\ UNCHANGED <<clock, booted, users, contests, prefs, reminders, rq, pq, imp,
                 attempts, delivered, faults, gq, reg>>

\* await storage.createContestReminder({userId, contestId, reminded: true})
TickCreate(i) ==
  /\ tk[i].pc = "create"
  /\ reminders' = CreateContestReminder(reminders, TickPair(tk[i])[1], TickPair(tk[i])[2], TRUE)
  /\ tk' = [tk EXCEPT ![i] = [@ EXCEPT !.pc = "send"]]
  /\ UNCHANGED <<clock, booted, users, contests, prefs, rq, pq, imp, attempts, delivered, faults, gq, reg>>

\* await storage.updateContestReminder(existingReminder.id, true)
TickUpdate(i) ==
  /\ tk[i].pc = "update"
  /\ reminders' = UpdateContestReminder(reminders, tk[i].rem, TRUE)
  /\ tk' = [tk EXCEPT ![i] = [@ EXCEPT !.pc = "send"]]
  /\ UNCHANGED <<clock, booted, users, contests, prefs, rq, pq, imp, attempts, delivered, faults, gq, reg>>

\* await sendContestNotificationEmail(...): true or false, never a throw; the
\* result is dropped
TickSend(i, ok) ==
  /\ tk[i].pc = "send"
  /\ attempts' = [attempts EXCEPT ![TickPair(tk[i])] = @ + 1]
  /\ delivered' = IF ok THEN delivered \cup {TickPair(tk[i])} ELSE delivered
  /\ tk' = [tk EXCEPT ![i] = NextUser([@ EXCEPT !.disp = @ \cup {TickPair(tk[i])}])]
  /\ UNCHANGED <<clock, booted, users, contests, prefs, reminders, rq, pq, imp, faults, gq, reg>>

\* a storage call inside the try throws: nothing is written, the catch logs
TickCaught(i) ==
  /\ tk[i].pc \in {"prefs", "reminder", "create", "update"}
  /\ faults < MaxFaults
  /\ faults' = faults + 1
  /\ tk' = [tk EXCEPT ![i] = CatchUserError([@ EXCEPT !.evald = @ \cup {TickPair(tk[i])}])]
  /\ UNCHANGED <<clock, booted, users, contests, prefs, reminders, rq, pq, imp,
                 attempts, delivered, gq, reg>>

-----------------------------------------------------------------------------
(* POST /api/contest-reminders *)

IdleRequest == [pc |-> "idle", contestId |-> 0, status |-> 0]

\* the request of an authenticated user; getContestById answers: 404 without the row
PostStart(u, contestId) ==
  /\ booted
  /\ u \in Range(users)
  /\ rq[u].pc = "idle"
  /\ rq' = [rq EXCEPT ![u] =
              IF GetContestById(contests, contestId)
              THEN [pc |-> "check", contestId |-> contestId, status |-> 0]
              ELSE [pc |-> "idle", contestId |-> contestId, status |-> 404]]
  /\ UNCHANGED <<clock, booted, users, contests, prefs, reminders, tk, pq, imp,
                 attempts, delivered, faults, gq, reg>>

\* the existing reminder arrives: 409 when there is one
PostCheck(u) ==
  /\ rq[u].pc = "check"
  /\ rq' = [rq EXCEPT ![u] =
              IF GetContestReminderByUserAndContest(reminders, u, rq[u].contestId) # 0
              THEN [@ EXCEPT !.pc = "idle", !.status = 409]
              ELSE [@ EXCEPT !.pc = "create"]]
  /\ UNCHANGED <<clock, booted, users, contests, prefs, reminders, tk, pq, imp,
                 attempts, delivered, faults, gq, reg>>

\* await storage.createContestReminder({userId, contestId, reminded: false}); 201
PostCreate(u) ==
  /\ rq[u].pc = "create"
  /\ reminders' = CreateContestReminder(reminders, u, rq[u].contestId, FALSE)
  /\ rq' = [rq EXCEPT ![u] = [@ EXCEPT !.pc = "idle", !.status = 201]]
  /\ UNCHANGED <<clock, booted, users, contests, prefs, tk, pq, imp, attempts, delivered, faults, gq, reg>>

\* a storage call of the handler throws: 500, nothing written
PostError(u) ==
  /\ rq[u].pc \in {"check", "create"}
  /\ faults < MaxFaults
  /\ faults' = faults + 1
  /\ rq' = [rq EXCEPT ![u] = [@ EXCEPT !.pc = "idle", !.status = 500]]
  /\ UNCHANGED <<clock, booted, users, contests, prefs, reminders, tk, pq, imp,
                 attempts, delivered, gq, reg>>

-----------------------------------------------------------------------------
(* PUT /api/notification-preferences *)

IdlePut == [pc |-> "idle", body |-> [userId |-> 0]]

\* {...row, ...body}
ApplyUpdate(row, body) ==
  [f \in DOMAIN row |-> IF f \in DOMAIN body THEN body[f] ELSE row[f]]

\* the defaults the register and GET routes write
DefaultPreferences(u) ==
  [userId |-> u, emailNotifications |-> TRUE, notificationTiming |-> "1hour",
   notifyCodeforces |-> TRUE, notifyCodechef |-> TRUE, notifyLeetcode |-> TRUE]

\* MemStorage.createNotificationPreferences({userId, ...body}): a field the body
\* lacks is undefined, which every reader of a flag takes as false
CreateNotificationPreferences(rows, u, body) ==
  Append(rows, ApplyUpdate(
    [userId |-> u, emailNotifications |-> FALSE, notificationTiming |-> "undefined",
     notifyCodeforces |-> FALSE, notifyCodechef |-> FALSE, notifyLeetcode |-> FALSE],
    body))

\* MemStorage.updateNotificationPreferences(userId, body): the first row of the user
UpdateNotificationPreferences(rows, u, body) ==
  LET p == GetNotificationPreferences(rows, u)
  IN IF p = 0 THEN rows ELSE [rows EXCEPT ![p] = ApplyUpdate(rows[p], body)]

\* the request body passes the partial schema; the stored preferences arrive
PutStart(u, body) ==
  /\ booted
  /\ u \in Range(users)
  /\ pq[u].pc = "idle"
  /\ pq' = [pq EXCEPT ![u] =
              [pc |-> IF GetNotificationPreferences(prefs, u) = 0 THEN "create" ELSE "update",
               body |-> body]]
  /\ UNCHANGED <<clock, booted, users, contests, prefs, reminders, tk, rq, imp,
                 attempts, delivered, faults, gq, reg>>

\* create when there was no row, else update
PutWrite(u) ==
  /\ pq[u].pc \in {"create", "update"}
  /\ prefs' = IF pq[u].pc = "create"
              THEN CreateNotificationPreferences(prefs, u, pq[u].body)
              ELSE UpdateNotificationPreferences(prefs, u, pq[u].body)
  /\ pq' = [pq EXCEPT ![u] = IdlePut]
  /\ UNCHANGED <<clock, booted, users, contests, reminders, tk, rq, imp,
                 attempts, delivered, faults, gq, reg>>

-----------------------------------------------------------------------------
(* GET /api/notification-preferences and POST /api/auth/register *)

\* the stored preferences arrive: answered as they are, or defaults are due
GetStart(u) ==
  /\ booted
  /\ u \in Range(users)
  /\ gq[u] = "idle"
  /\ gq' = [gq EXCEPT ![u] =
              IF GetNotificationPreferences(prefs, u) = 0 THEN "create" ELSE "idle"]
  /\ UNCHANGED <<clock, booted, users, contests, prefs, reminders, tk, rq, pq, imp,
                 attempts, delivered, faults, reg>>

\* the defaults are stored and answered
GetCreate(u) ==
  /\ gq[u] = "create"
  /\ prefs' = CreateNotificationPreferences(prefs, u, DefaultPreferences(u))
  /\ gq' = [gq EXCEPT ![u] = "idle"]
  /\ UNCHANGED <<clock, booted, users, contests, reminders, tk, rq, pq, imp,
                 attempts, delivered, faults, reg>>

\* storage.createUser: the user gets the next serial id
RegisterStart(u) ==
  /\ booted
  /\ reg[u] = "idle"
  /\ u = Len(users) + 1
  /\ users' = Append(users, u)
  /\ reg' = [reg EXCEPT ![u] = "prefs"]
  /\ UNCHANGED <<clock, booted, contests, prefs, reminders, tk, rq, pq, imp,
                 attempts, delivered, faults, gq>>

\* the default preferences of the new user are stored; 201
RegisterPreferences(u) ==
  /\ reg[u] = "prefs"
  /\ prefs' = CreateNotificationPreferences(prefs, u, DefaultPreferences(u))
  /\ reg' = [reg EXCEPT ![u] = "done"]
  /\ UNCHANGED <<clock, booted, users, contests, reminders, tk, rq, pq, imp,
                 attempts, delivered, faults, gq>>

\* createNotificationPreferences throws: 500, the user stays without a row
RegisterError(u) ==
  /\ reg[u] = "prefs"
  /\ faults < MaxFaults
  /\ faults' = faults + 1
  /\ reg' = [reg EXCEPT ![u] = "failed"]
  /\ UNCHANGED <<clock, booted, users, contests, prefs, reminders, tk, rq, pq, imp,
                 attempts, delivered, gq>>

-----------------------------------------------------------------------------
(* The clock *)

AllTicksIdle == \A i \in TickSlots : tk[i].pc = "idle"

\* time passes between two runs of the scheduler
AdvanceTo(instants) ==
  /\ AllTicksIdle
  /\ \E t \in instants : t > clock /\ clock' = t
  /\ UNCHANGED <<booted, users, contests, prefs, reminders, tk, rq, pq, imp,
                 attempts, delivered, faults, gq, reg>>

-----------------------------------------------------------------------------
(* contest-api.ts: the fetchers.  A source response is "error" (the request  *)
(* throws), or carries data; a date string of a source is given by the time  *)
(* value new Date(string) has, NaN when it does not parse.                   *)

\* the clock's origin is baseDate, new Date(2025, 3, 1): a Tuesday (getDay() = 2)
OriginWeekday == 2

WeekMs == 7 * 24 * 60 * 60 * 1000

\* a number below 100 or 1000 in two or three digits
Pad2(n) == <<ToString(n \div 10), ToString(n % 10)>>
Pad3(n) == <<ToString(n \div 100)>> \o Pad2(n % 100)

\* YYYY-MM-DD only
ISODate(t) ==
  <<"2", "0", "2", "5", "-", "0", "4", "-">> \o Pad2(1 + t \div MsPerDay)

\* Date.toISOString(), character by character: YYYY-MM-DDTHH:mm:ss.sssZ (the
\* clock's origin is 2025-04-01T00:00:00.000Z; the model's times are in April)
ISO(t) ==
  <<"2", "0", "2", "5", "-", "0", "4", "-">> \o Pad2(1 + t \div MsPerDay) \o <<"T">>
    \o Pad2((t % MsPerDay) \div MsPerHour) \o <<":">>
    \o Pad2((t % MsPerHour) \div MsPerMinute) \o <<":">>
    \o Pad2((t % MsPerMinute) \div 1000) \o <<".">> \o Pad3(t % 1000) \o <<"Z">>

\* [...a, ...b, ...] over a sequence of sequences
RECURSIVE Flatten(_)
Flatten(ss) == IF ss = <<>> THEN <<>> ELSE Head(ss) \o Flatten(Tail(ss))

\* Array.filter
RECURSIVE Filter(_, _)
Filter(list, keep) ==
  IF list = <<>> THEN <<>>
  ELSE (IF Head(list) \in keep THEN <<Head(list)>> ELSE <<>>) \o Filter(Tail(list), keep)

\* Array.slice(0, n)
Slice(list, n) == SubSeq(list, 1, IF Len(list) < n THEN Len(list) ELSE n)

\* JavaScript's %: the remainder has the sign of the dividend
JsRem(a, b) == IF a >= 0 THEN a % b ELSE 0 - ((0 - a) % b)

\* formatDuration: the text of a duration in seconds, as the sequence of its
\* components; NaN seconds give "NaNh NaNm"
FormatDuration(durationSeconds) ==
  IF durationSeconds = NaN THEN <<"NaN", "h", " ", "NaN", "m">>
  ELSE LET hours == durationSeconds \div 3600
           minutes == JsRem(durationSeconds, 3600) \div 60
       IN IF hours = 0 THEN <<ToString(minutes), "m">>
          ELSE IF minutes = 0 THEN <<ToString(hours), "h">>
          ELSE <<ToString(hours), "h", " ", ToString(minutes), "m">>

\* String.toLowerCase on one piece of a name. A name is a sequence of pieces,
\* cut so that a piece is either one spelling of a marker or holds no marker.
LowerPiece(piece) ==
  CASE piece \in {"Div. 1", "DIV. 1"} -> "div. 1"
    [] piece \in {"Div. 2", "DIV. 2"} -> "div. 2"
    [] piece \in {"Div.2", "DIV.2"} -> "div.2"
    [] piece \in {"Div 2", "DIV 2"} -> "div 2"
    [] piece \in {"Div. 3", "DIV. 3"} -> "div. 3"
    [] piece \in {"Div. 4", "DIV. 4"} -> "div. 4"
    [] piece \in {"Educational", "EDUCATIONAL"} -> "educational"
    [] piece \in {"Global", "GLOBAL"} -> "global"
    [] piece \in {"Long", "LONG"} -> "long"
    [] piece \in {"Challenge", "CHALLENGE"} -> "challenge"
    [] piece \in {"Cook", "COOK"} -> "cook"
    [] piece \in {"Cook-Off", "COOK-OFF"} -> "cook-off"
    [] piece \in {"Lunch", "LUNCH"} -> "lunch"
    [] piece \in {"Lunchtime", "LunchTime", "LUNCHTIME"} -> "lunchtime"
    [] piece \in {"Starters", "STARTERS"} -> "starters"
    [] piece \in {"Weekly", "WEEKLY"} -> "weekly"
    [] piece \in {"Biweekly", "BIWEEKLY"} -> "biweekly"
    [] OTHER -> piece

ToLowerCase(name) == [k \in DOMAIN name |-> LowerPiece(name[k])]

\* the markers that are substrings of a lower-case piece: the piece itself, and
\* the marker a longer marker contains
Substrings(piece) ==
  {piece} \cup (CASE piece = "biweekly" -> {"weekly"}
                  [] piece = "lunchtime" -> {"lunch"}
                  [] piece = "cook-off" -> {"cook"}
                  [] OTHER -> {})

\* String.includes on a name in pieces
Includes(name, marker) == \E k \in DOMAIN name : marker \in Substrings(name[k])

\* the pieces of a string, put together
RECURSIVE Join(_)
Join(pieces) == IF pieces = <<>> THEN "" ELSE Head(pieces) \o Join(Tail(pieces))

\* the if-chain of fetchCodeforcesContests with its branches in the opposite order
ClassifyCodeforcesReversed(contestName) ==
  LET name == ToLowerCase(contestName)
  IN IF Includes(name, "global")
     THEN [contestType |-> "global", difficulty |-> "All levels"]
     ELSE IF Includes(name, "educational")
     THEN [contestType |-> "educational", difficulty |-> "1600+"]
     ELSE IF Includes(name, "div. 4") \/ Includes(name, "div.4") \/ Includes(name, "div 4")
     THEN [contestType |-> "div4", difficulty |-> "0-1299"]
     ELSE IF Includes(name, "div. 3") \/ Includes(name, "div.3") \/ Includes(name, "div 3")
     THEN [contestType |-> "div3", difficulty |-> "1300-1599"]
     ELSE IF Includes(name, "div. 2") \/ Includes(name, "div.2") \/ Includes(name, "div 2")
     THEN [contestType |-> "div2", difficulty |-> "1600-1899"]
     ELSE IF Includes(name, "div. 1") \/ Includes(name, "div.1") \/ Includes(name, "div 1")
     THEN [contestType |-> "div1", difficulty |-> "1900+"]
     ELSE [contestType |-> "other", difficulty |-> "undefined"]

\* the contest type and the difficulty fetchCodeforcesContests derives from a
\* name: the first branch of the if-chain that matches
ClassifyCodeforces(contestName) ==
  LET name == ToLowerCase(contestName)
  IN IF Includes(name, "div. 1") \/ Includes(name, "div.1") \/ Includes(name, "div 1")
     THEN [contestType |-> "div1", difficulty |-> "1900+"]
     ELSE IF Includes(name, "div. 2") \/ Includes(name, "div.2") \/ Includes(name, "div 2")
     THEN [contestType |-> "div2", difficulty |-> "1600-1899"]
     ELSE IF Includes(name, "div. 3") \/ Includes(name, "div.3") \/ Includes(name, "div 3")
     THEN [contestType |-> "div3", difficulty |-> "1300-1599"]
     ELSE IF Includes(name, "div. 4") \/ Includes(name, "div.4") \/ Includes(name, "div 4")
     THEN [contestType |-> "div4", difficulty |-> "0-1299"]
     ELSE IF Includes(name, "educational")
     THEN [contestType |-> "educational", difficulty |-> "1600+"]
     ELSE IF Includes(name, "global")
     THEN [contestType |-> "global", difficulty |-> "All levels"]
     ELSE [contestType |-> "other", difficulty |-> "undefined"]

\* the record a Codeforces contest is mapped to
CodeforcesRecord(c) ==
  [platform |-> "codeforces", name |-> c.name, url |-> "cf/" \o ToString(c.id),
   startTime |-> c.startTimeSeconds * 1000,
   endTime |-> c.startTimeSeconds * 1000 + c.durationSeconds * 1000,
   duration |-> FormatDuration(c.durationSeconds),
   difficulty |-> ClassifyCodeforces(c.name).difficulty,
   contestType |-> ClassifyCodeforces(c.name).contestType,
   durationMinutes |-> c.durationSeconds \div 60]

\* fetchCodeforcesContests: contests that ended over a week ago are dropped; a
\* response without a result list throws inside the try
FetchCodeforcesContests(resp, now) ==
  IF resp.kind # "ok" THEN <<>>
  ELSE LET nowSeconds == now \div 1000
           oneWeekAgo == nowSeconds - 7 * 24 * 60 * 60
           recent == {c \in Range(resp.result) :
                        c.startTimeSeconds + c.durationSeconds > oneWeekAgo}
       IN [k \in DOMAIN Filter(resp.result, recent) |->
             CodeforcesRecord(Filter(resp.result, recent)[k])]

\* the contest type and the difficulty fetchCodechefContests derives from a name
ClassifyCodechef(contestName) ==
  LET name == ToLowerCase(contestName)
  IN IF Includes(name, "long") \/ Includes(name, "challenge")
     THEN [contestType |-> "long", difficulty |-> "All levels"]
     ELSE IF Includes(name, "cook") \/ Includes(name, "cook-off")
     THEN [contestType |-> "cookoff", difficulty |-> "Medium-Hard"]
     ELSE IF Includes(name, "lunch") \/ Includes(name, "lunchtime")
     THEN [contestType |-> "lunchtime", difficulty |-> "Medium"]
     ELSE IF Includes(name, "starters")
     THEN [contestType |-> "starters", difficulty |-> "All levels"]
     ELSE [contestType |-> "other", difficulty |-> "undefined"]

\* the contest type and the difficulty fetchLeetcodeContests derives from a title
\* and its slug; the kontests.net entries have a name only
ClassifyLeetcode(contestTitle, contestSlug) ==
  LET title == ToLowerCase(contestTitle)
      titleSlug == ToLowerCase(contestSlug)
  IN IF Includes(title, "weekly") \/ Includes(titleSlug, "weekly")
     THEN [contestType |-> "weekly", difficulty |-> "Medium-Hard"]
     ELSE IF Includes(title, "biweekly") \/ Includes(titleSlug, "biweekly")
     THEN [contestType |-> "biweekly", difficulty |-> "Medium-Hard"]
     ELSE [contestType |-> "other", difficulty |-> "Medium-Hard"]

\* the record a kontests.net entry is mapped to; arithmetic on NaN gives NaN
KontestsRecord(platform, url, c) ==
  [platform |-> platform, name |-> c.name, url |-> url,
   difficulty |-> IF platform = "codechef" THEN ClassifyCodechef(c.name).difficulty
                  ELSE ClassifyLeetcode(c.name, <<>>).difficulty,
   contestType |-> IF platform = "codechef" THEN ClassifyCodechef(c.name).contestType
                   ELSE ClassifyLeetcode(c.name, <<>>).contestType,
   startTime |-> c.start_time, endTime |-> c.end_time,
   duration |-> IF c.start_time = NaN \/ c.end_time = NaN THEN FormatDuration(NaN)
                ELSE FormatDuration((c.end_time - c.start_time) \div 1000),
   durationMinutes |-> IF c.start_time = NaN \/ c.end_time = NaN THEN NaN
                       ELSE ((c.end_time - c.start_time) \div 1000) \div 60]

\* fetchCodechefContests: the kontests.net list, [] when the request fails
FetchCodechefContests(resp) ==
  IF resp.kind # "ok" THEN <<>>
  ELSE [k \in DOMAIN resp.result |-> KontestsRecord("codechef", resp.result[k].url, resp.result[k])]

\* the record a LeetCode GraphQL contest is mapped to
LeetcodeRecord(c) ==
  [platform |-> "leetcode", name |-> c.title, url |-> "lc/" \o Join(c.titleSlug),
   startTime |-> c.startTime * 1000, endTime |-> (c.startTime + c.duration) * 1000,
   difficulty |-> ClassifyLeetcode(c.title, c.titleSlug).difficulty,
   contestType |-> ClassifyLeetcode(c.title, c.titleSlug).contestType,
   duration |-> FormatDuration(c.duration),
   durationMinutes |-> c.duration \div 60]

\* the placeholder contests of the innermost catch: next and previous Saturday's
\* weekly and biweekly contests, numbered from the weeks since baseDate
FallbackLeetcodeContests(now) ==
  LET day == now \div MsPerDay
      weekday == (OriginWeekday + day) % 7
      nextWeekly == (day + ((6 - weekday + 7) % 7)) * MsPerDay + 2 * MsPerHour + 30 * MsPerMinute
      nextBiweekly == (day + ((6 - weekday + 14) % 14)) * MsPerDay + 14 * MsPerHour + 30 * MsPerMinute
      weeksSinceBase == now \div WeekMs
      weekly == 444 + weeksSinceBase
      biweekly == 154 + weeksSinceBase \div 2
      contestDuration == 90 * 60 * 1000
      prevWeekly == nextWeekly - 7 * MsPerDay
      prevBiweekly == (day - (weekday + 1)) * MsPerDay + 14 * MsPerHour + 30 * MsPerMinute
      Entry(title, slug, type, n, start) ==
        [platform |-> "leetcode", name |-> <<title, " Contest ", ToString(n)>>,
         url |-> "lc/" \o slug \o ToString(n), startTime |-> start,
         endTime |-> start + contestDuration, duration |-> <<"1", "h", " ", "30", "m">>,
         difficulty |-> "Medium-Hard", contestType |-> type,
         durationMinutes |-> 90]
  IN << Entry("Weekly", "weekly-contest-", "weekly", weekly, nextWeekly),
        Entry("Biweekly", "biweekly-contest-", "biweekly", biweekly, nextBiweekly),
        Entry("Weekly", "weekly-contest-", "weekly", weekly - 1, prevWeekly),
        Entry("Biweekly", "biweekly-contest-", "biweekly", biweekly - 1, prevBiweekly) >>

\* fetchLeetcodeContests: the GraphQL answer; [] when it carries no data; the
\* kontests.net list when the GraphQL request throws; the placeholders when that
\* request throws too
FetchLeetcodeContests(primary, secondary, now) ==
  IF primary.kind = "ok"
  THEN IF ~primary.hasData \/ (~primary.hasTopTwo /\ ~primary.hasAll) THEN <<>>
       ELSE LET upcoming == IF primary.hasTopTwo THEN primary.topTwoContests
                            ELSE IF primary.hasAll THEN Slice(primary.allContests, 2)
                            ELSE <<>>
                nowSeconds == now \div 1000
                oneWeekAgo == nowSeconds - 7 * 24 * 60 * 60
                ended == {c \in Range(primary.allContests) :
                            /\ c.startTime + c.duration < nowSeconds
                            /\ c.startTime + c.duration > oneWeekAgo}
                past == IF primary.hasAll THEN Slice(Filter(primary.allContests, ended), 3)
                        ELSE <<>>
                all == upcoming \o past
            IN [k \in DOMAIN all |-> LeetcodeRecord(all[k])]
  ELSE IF secondary.kind = "ok"
       THEN [k \in DOMAIN secondary.result |->
               KontestsRecord("leetcode", "lc/", secondary.result[k])]
       ELSE FallbackLeetcodeContests(now)

\* fetchAllContests: Promise.all over the three fetchers, none of which rejects
FetchAllContests(r, now) ==
  Flatten(<< FetchCodeforcesContests(r.codeforces, now),
             FetchCodechefContests(r.codechef),
             FetchLeetcodeContests(r.leetcode, r.kontests, now) >>)

-----------------------------------------------------------------------------
(* fetchAndStoreContests *)

ImportSlots == {1, 2}

NoResponses == [codeforces |-> [kind |-> "none"]]

IdleImport ==
  [pc |-> "idle", resp |-> NoResponses, fetched |-> <<>>, keys |-> {}, nread |-> 0,
   k |-> 0, newContestsCount |-> 0, result |-> "none", runs |-> 0,
   prev |-> <<>>, prevResult |-> "none"]

\* the characters of a platform's name
PlatformChars(platform) ==
  CASE platform = "codeforces" -> <<"c", "o", "d", "e", "f", "o", "r", "c", "e", "s">>
    [] platform = "codechef" -> <<"c", "o", "d", "e", "c", "h", "e", "f">>
    [] platform = "leetcode" -> <<"l", "e", "e", "t", "c", "o", "d", "e">>

\* `${platform}-${name}-${new Date(startTime).toISOString()}`, character by
\* character (a name is a sequence of characters, or of pieces without '-')
ContestKey(c) ==
  PlatformChars(c.platform) \o <<"-">> \o c.name \o <<"-">> \o ISO(c.startTime)

\* a key map that is never filled
NoExistingKeys(rows) == {}

\* the keys of existingContestKeys, one per stored contest
ExistingKeys(rows) == {ContestKey(rows[j]) : j \in DOMAIN rows}

\* storage.createContest: the next serial id is the next index
CreateContest(rows, c) == Append(rows, c)

\* an upsert: the stored row of the key takes the fetched fields
OverwriteDuplicate(rows, c) ==
  [j \in DOMAIN rows |-> IF ContestKey(rows[j]) = ContestKey(c) THEN c ELSE rows[j]]

\* the if without else: a contest whose key is in the map is passed over
OnDuplicate(rows, c) == rows

\* the end of a run: the log line ("done"), or the catch of the outer try
\* after a RangeError ("invalid") or a storage error ("error")
ImportEnd(run, result) ==
  [IdleImport EXCEPT !.result = result, !.runs = run.runs,
                     !.newContestsCount = run.newContestsCount,
                     !.fetched = run.fetched, !.prev = run.prev,
                     !.nread = run.nread, !.prevResult = run.prevResult]

\* the call at the instant now; fetchAllContests answers
ImportBegin(i, r, now) ==
  /\ imp[i].pc = "idle"
  /\ imp[i].runs < MaxRuns
  /\ imp' = [imp EXCEPT ![i] =
               [IdleImport EXCEPT !.pc = "existing", !.resp = r,
                                  !.fetched = FetchAllContests(r, now),
                                  !.runs = imp[i].runs + 1,
                                  !.prev = imp[i].fetched,
                                  !.prevResult = imp[i].result]]
  /\ UNCHANGED <<booted, users, contests, prefs, reminders, tk, rq, pq,
                 attempts, delivered, faults, gq, reg>>

\* registerRoutes awaits the first run before it sets the timers
ImportAtStartup(i, r) == ~booted /\ ImportBegin(i, r, clock) /\ UNCHANGED clock

\* cron "0 * * * *": the next full hour
ImportHourly(i, r) ==
  /\ booted
  /\ clock' = clock + MsPerHour
  /\ ImportBegin(i, r, clock + MsPerHour)

\* the stored contests arrive; the map of their keys is built
ImportExisting(i) ==
  /\ imp[i].pc = "existing"
  /\ LET run == [imp[i] EXCEPT !.pc = "loop", !.keys = ExistingKeys(contests),
                               !.nread = Len(contests), !.k = 1]
     IN imp' = [imp EXCEPT ![i] =
                  IF run.fetched = <<>> THEN ImportEnd(run, "done") ELSE run]
  /\ booted' = (booted \/ imp[i].fetched = <<>>)
  /\ UNCHANGED <<clock, users, contests, prefs, reminders, tk, rq, pq,
                 attempts, delivered, faults, gq, reg>>

\* one fetched contest: its key (an Invalid Date throws a RangeError), then
\* createContest when the map lacks the key
ImportLoop(i) ==
  /\ imp[i].pc = "loop"
  /\ LET run == imp[i]
         c == run.fetched[run.k]
         last == run.k = Len(run.fetched)
         step == [run EXCEPT !.k = run.k + 1]
     IN IF c.startTime = NaN
        THEN /\ imp' = [imp EXCEPT ![i] = ImportEnd(run, "invalid")]
             /\ contests' = contests
             /\ booted' = TRUE
        ELSE /\ contests' = IF ContestKey(c) \in run.keys THEN OnDuplicate(contests, c)
                            ELSE CreateContest(contests, c)
             /\ LET counted == IF ContestKey(c) \in run.keys THEN step
                               ELSE [step EXCEPT !.newContestsCount = @ + 1]
                IN imp' = [imp EXCEPT ![i] =
                             IF last THEN ImportEnd(counted, "done") ELSE counted]
             /\ booted' = (booted \/ last)
  /\ UNCHANGED <<clock, users, prefs, reminders, tk, rq, pq, attempts, delivered, faults, gq, reg>>

\* getAllContests or createContest throws: the outer catch logs, the run is over
ImportFault(i) ==
  /\ \/ imp[i].pc = "existing"
     \/ /\ imp[i].pc = "loop"
        /\ imp[i].fetched[imp[i].k].startTime # NaN
        /\ ContestKey(imp[i].fetched[imp[i].k]) \notin imp[i].keys
  /\ faults < MaxFaults
  /\ faults' = faults + 1
  /\ imp' = [imp EXCEPT ![i] = ImportEnd(imp[i], "error")]
  /\ booted' = TRUE
  /\ UNCHANGED <<clock, users, contests, prefs, reminders, tk, rq, pq, attempts, delivered, gq, reg>>

-----------------------------------------------------------------------------
(* The stores the scheduler specifications start from: three imported contests *)
(* that start a little over a day after the clock's origin, and two registered *)
(* users.                                                                      *)

ContestRow(platform, name, url, startTime, durationSeconds) ==
  [platform |-> platform, name |-> name, url |-> url, startTime |-> startTime,
   endTime |-> startTime + durationSeconds * 1000,
   durationMinutes |-> durationSeconds \div 60]

SeedStart == 1445 * MsPerMinute

SeedContests ==
  << ContestRow("codeforces", <<"A">>, "cf/1", SeedStart, 7200),
     ContestRow("codechef", <<"B">>, "cc/1", SeedStart + 1, 5400),
     ContestRow("leetcode", <<"C">>, "lc/1", SeedStart + TickInterval - 1, 5400) >>

ContestIds == DOMAIN SeedContests

Pairs == UserIds \X ContestIds

AllTimings == NotificationTimings \cup {"2days"}

\* every preference row a sequence of PUT requests can leave for user u
PreferenceRows(u) ==
  [userId : {u}, emailNotifications : BOOLEAN, notificationTiming : AllTimings,
   notifyCodeforces : BOOLEAN, notifyCodechef : BOOLEAN, notifyLeetcode : BOOLEAN]

InitScheduler(rows) ==
  /\ clock = 0
  /\ booted = TRUE
  /\ users = <<1, 2>>
  /\ contests = rows
  /\ faults = 0
  /\ tk = [i \in TickSlots |-> IdleTick]
  /\ rq = [u \in UserIds |-> IdleRequest]
  /\ pq = [u \in UserIds |-> IdlePut]
  /\ gq = [u \in UserIds |-> "idle"]
  /\ reg = [u \in UserIds |-> "done"]
  /\ imp = [i \in ImportSlots |-> IdleImport]
  /\ attempts = [p \in Pairs |-> 0]
  /\ delivered = {}

-----------------------------------------------------------------------------
(* SpecTimed: the scheduler alone, its timer firing every five minutes, each *)
(* run over before the next one starts; no storage call fails.               *)

MaxClock == SeedStart + (MaxTailTicks + 1) * TickInterval

\* reminders the users asked for before the clock's origin
TimedReminders ==
  { <<>>,
    <<[userId |-> 1, contestId |-> 1, reminded |-> FALSE]>>,
    <<[userId |-> 2, contestId |-> 3, reminded |-> FALSE]>> }

InitTimed ==
  /\ InitScheduler(SeedContests)
  /\ \E row \in PreferenceRows(1) : prefs = <<row, DefaultPreferences(2)>>
  /\ reminders \in TimedReminders

\* the timer fires one interval after the last time
CronTick(i) ==
  /\ clock + TickInterval <= MaxClock
  /\ clock' = clock + TickInterval
  /\ TickBegin(i, clock + TickInterval)

NextTimed ==
  \/ CronTick(1)
  \/ TickUpcoming(1)
  \/ TickUsers(1)
  \/ TickPrefs(1)
  \/ TickReminder(1)
  \/ TickCreate(1)
  \/ TickUpdate(1)
  \/ \E ok \in BOOLEAN : TickSend(1, ok)

SpecTimed == InitTimed /\ [][NextTimed]_vars

-----------------------------------------------------------------------------
(* Spec: the scheduler, one run at a time, with the opt-in requests served   *)
(* between any two of its steps, storage calls that may throw and sends that *)
(* may fail.                                                                 *)

\* the contests of the interleaved specifications: the first two
SchedContests == SubSeq(SeedContests, 1, 2)

\* moments at which the timer fires: inside the 1day windows, inside the 1hour windows
SchedInstants == {TickInterval, 1390 * MsPerMinute}

\* the contest ids the opt-in requests name: a stored one, and one that is not stored
RequestContestIds == {1, Len(SchedContests) + 1}

\* the users who send opt-in requests
PostUsers == {1}

Init ==
  /\ InitScheduler(SchedContests)
  /\ prefs = <<DefaultPreferences(1), DefaultPreferences(2)>>
  /\ reminders = <<>>

TickSteps(i) ==
  \/ TickUpcoming(i)
  \/ TickUsers(i)
  \/ TickPrefs(i)
  \/ TickReminder(i)
  \/ TickCreate(i)
  \/ TickUpdate(i)
  \/ \E ok \in BOOLEAN : TickSend(i, ok)

TickFaults(i) ==
  \/ TickRejected(i)
  \/ TickCaught(i)

PostSteps ==
  \/ \E u \in PostUsers : PostCheck(u)
  \/ \E u \in PostUsers : PostCreate(u)

Next ==
  \/ TickStart(1)
  \/ TickSteps(1)
  \/ TickFaults(1)
  \/ \E u \in PostUsers, c \in RequestContestIds : PostStart(u, c)
  \/ PostSteps
  \/ \E u \in PostUsers : PostError(u)
  \/ AdvanceTo(SchedInstants)

Spec == Init /\ [][Next]_vars

-----------------------------------------------------------------------------
(* SpecSeq: the scheduler, one run at a time, with the preference updates    *)
(* served between any two of its steps and the opt-in requests served        *)
(* between two runs.                                                         *)

\* the bodies of the PUT requests
PutBodies == {[notificationTiming |-> "1day"], [notificationTiming |-> "1hour"]}

\* the users who send PUT requests
PutUsers == {1}

AllRequestsIdle == \A u \in UserIds : rq[u].pc = "idle"

NextSeq ==
  \/ AllRequestsIdle /\ TickStart(1)
  \/ TickSteps(1)
  \/ TickFaults(1)
  \/ AllTicksIdle /\ \E u \in PostUsers : PostStart(u, 1)
  \/ PostSteps
  \/ \E u \in PutUsers, body \in PutBodies : PutStart(u, body)
  \/ \E u \in PutUsers : PutWrite(u)
  \/ AdvanceTo(SchedInstants)

SpecSeq == Init /\ [][NextSeq]_vars

-----------------------------------------------------------------------------
(* SpecImport: fetchAndStoreContests alone, at startup and then from the     *)
(* hourly timer, one run at a time.                                          *)

\* the server starts on the ninth day after the clock's origin
ImportClock == 8 * MsPerDay

DaySeconds == 24 * 60 * 60

Failed == [kind |-> "error"]

\* contest.list entries: a round on the tenth day, the same round as an
\* earlier answer gave it (another id and length), a round of the first day
cfA == [id |-> 1, name |-> <<"A">>, startTimeSeconds |-> 9 * DaySeconds, durationSeconds |-> 7200]
cfEarlier == [id |-> 2, name |-> <<"A">>, startTimeSeconds |-> 9 * DaySeconds, durationSeconds |-> 9000]
cfOld == [id |-> 3, name |-> <<"Old">>, startTimeSeconds |-> 0, durationSeconds |-> 7200]

\* an answer without a result list makes contests.filter throw
CodeforcesResponses ==
  { Failed, [kind |-> "malformed"], [kind |-> "ok", result |-> <<cfA, cfOld>>] }

\* kontests.net/code_chef entries: a contest, and one whose dates do not parse
ccB ==
  [name |-> <<"B">>, url |-> "cc/B", start_time |-> 9 * MsPerDay + MsPerHour,
   end_time |-> 9 * MsPerDay + 3 * MsPerHour]
ccBad == [name |-> <<"Bad">>, url |-> "cc/Bad", start_time |-> NaN, end_time |-> NaN]

CodechefResponses ==
  { Failed, [kind |-> "ok", result |-> <<ccB>>], [kind |-> "ok", result |-> <<ccB, ccBad>>] }

\* leetcode.com/graphql entries (allContests lists the newest first), and the
\* kontests.net/leet_code entry of the coming contest
lcNext ==
  [title |-> <<"Weekly", " Contest ", "446">>, titleSlug |-> <<"weekly", "-contest-446">>,
   startTime |-> 11 * DaySeconds, duration |-> 5400]
lcPast ==
  [title |-> <<"Weekly", " Contest ", "445">>, titleSlug |-> <<"weekly", "-contest-445">>,
   startTime |-> 4 * DaySeconds, duration |-> 5400]
kNext ==
  [name |-> <<"Weekly", " Contest ", "446">>, start_time |-> 11 * MsPerDay,
   end_time |-> 11 * MsPerDay + 90 * MsPerMinute]

GraphQLAnswer(hasTopTwo, topTwo, all) ==
  [kind |-> "ok", hasData |-> TRUE, hasTopTwo |-> hasTopTwo, hasAll |-> TRUE,
   topTwoContests |-> topTwo, allContests |-> all]

\* the GraphQL answer with the kontests.net answer behind it
LeetcodeResponses ==
  { <<Failed, Failed>>,
    <<Failed, [kind |-> "ok", result |-> <<kNext>>]>>,
    <<GraphQLAnswer(TRUE, <<lcNext>>, <<lcNext, lcPast>>), Failed>>,
    <<GraphQLAnswer(FALSE, <<>>, <<lcNext, lcPast>>), Failed>> }

Responses ==
  { [codeforces |-> cf, codechef |-> cc, leetcode |-> lc[1], kontests |-> lc[2]] :
      cf \in CodeforcesResponses, cc \in CodechefResponses, lc \in LeetcodeResponses }

\* the store at startup: empty, or what an earlier life of the server stored
ImportStores == { <<>>, <<CodeforcesRecord(cfEarlier), LeetcodeRecord(lcPast)>> }

InitImport ==
  /\ clock = ImportClock
  /\ booted = FALSE
  /\ users = <<1, 2>>
  /\ contests \in ImportStores
  /\ prefs = <<DefaultPreferences(1), DefaultPreferences(2)>>
  /\ reminders = <<>>
  /\ faults = 0
  /\ tk = [i \in TickSlots |-> IdleTick]
  /\ rq = [u \in UserIds |-> IdleRequest]
  /\ pq = [u \in UserIds |-> IdlePut]
  /\ gq = [u \in UserIds |-> "idle"]
  /\ reg = [u \in UserIds |-> "done"]
  /\ imp = [i \in ImportSlots |-> IdleImport]
  /\ attempts = [p \in Pairs |-> 0]
  /\ delivered = {}

NextImport ==
  \/ \E r \in Responses : ImportAtStartup(1, r)
  \/ \E r \in Responses : ImportHourly(1, r)
  \/ ImportExisting(1)
  \/ ImportLoop(1)
  \/ ImportFault(1)

SpecImport == InitImport /\ [][NextImport]_vars

-----------------------------------------------------------------------------
(* SpecPrefs: registrations and the two notification-preferences routes,    *)
(* their storage calls interleaved in every order.                           *)

InitPrefs ==
  /\ clock = 0
  /\ booted = TRUE
  /\ users = <<>>
  /\ contests = <<>>
  /\ prefs = <<>>
  /\ reminders = <<>>
  /\ faults = 0
  /\ tk = [i \in TickSlots |-> IdleTick]
  /\ rq = [u \in UserIds |-> IdleRequest]
  /\ pq = [u \in UserIds |-> IdlePut]
  /\ gq = [u \in UserIds |-> "idle"]
  /\ reg = [u \in UserIds |-> "idle"]
  /\ imp = [i \in ImportSlots |-> IdleImport]
  /\ attempts = [p \in Pairs |-> 0]
  /\ delivered = {}

NextPrefs ==
  \/ \E u \in UserIds : RegisterStart(u)
  \/ \E u \in UserIds : RegisterPreferences(u)
  \/ \E u \in UserIds : RegisterError(u)
  \/ \E u \in UserIds : GetStart(u)
  \/ \E u \in UserIds : GetCreate(u)
  \/ \E u \in UserIds, body \in PutBodies : PutStart(u, body)
  \/ \E u \in UserIds : PutWrite(u)

SpecPrefs == InitPrefs /\ [][NextPrefs]_vars

-----------------------------------------------------------------------------
(* SpecEdge: the first run of fetchAndStoreContests, over source answers     *)
(* that carry one contest each: every name and every length of the sets      *)
(* below for Codeforces, every pair of dates for kontests.net.               *)

\* lengths of a contest in seconds: none, under a minute, not a multiple of a
\* minute, under an hour, whole hours, hours and minutes
EdgeDurations == {0, 59, 90, 1800, 3600, 5400, 5430, 7200}

\* names of Codeforces rounds, in pieces: without a marker, with one marker in
\* several spellings and cases, and with two markers
EdgeNames ==
  { <<"A">>,
    <<"Kotlin Heroes: Episode 12">>,
    <<"Codeforces Round 999 (", "Div. 2", ")">>,
    <<"CODEFORCES ROUND 998 (", "DIV.2", ")">>,
    <<"Codeforces Round 997 (", "div 2", ")">>,
    <<"Codeforces Round 996 (", "Div. 1", ")">>,
    <<"Codeforces Round 995 (", "Div. 3", ")">>,
    <<"Codeforces Round 994 (", "Div. 4", ")">>,
    <<"Educational", " Codeforces Round 170">>,
    <<"Codeforces ", "Global", " Round 27">>,
    <<"Educational", " Codeforces Round 171 (Rated for ", "Div. 2", ")">>,
    <<"Codeforces Round 993 (", "Div. 1", " + ", "Div. 2", ")">> }

EdgeCodeforces ==
  { [kind |-> "ok",
     result |-> <<[id |-> 1, name |-> n, startTimeSeconds |-> 9 * DaySeconds,
                   durationSeconds |-> d]>>] : n \in EdgeNames, d \in EdgeDurations }

\* end_time of a kontests.net entry, as milliseconds after its start_time
EdgeEnds == {-MsPerHour, 0, 90 * 1000, 2 * MsPerHour}

EdgeCodechef ==
  { [kind |-> "ok",
     result |-> <<[name |-> <<"B">>, url |-> "cc/B", start_time |-> 9 * MsPerDay,
                   end_time |-> 9 * MsPerDay + e]>>] : e \in EdgeEnds }

\* LeetCode's GraphQL request fails and kontests.net lists no LeetCode contest
EdgeResponses ==
  { [codeforces |-> cf, codechef |-> cc, leetcode |-> Failed,
     kontests |-> [kind |-> "ok", result |-> <<>>]] :
      cf \in EdgeCodeforces \cup {Failed}, cc \in EdgeCodechef \cup {Failed} }

InitEdge ==
  /\ clock = ImportClock
  /\ booted = FALSE
  /\ users = <<1, 2>>
  /\ contests = <<>>
  /\ prefs = <<DefaultPreferences(1), DefaultPreferences(2)>>
  /\ reminders = <<>>
  /\ faults = 0
  /\ tk = [i \in TickSlots |-> IdleTick]
  /\ rq = [u \in UserIds |-> IdleRequest]
  /\ pq = [u \in UserIds |-> IdlePut]
  /\ gq = [u \in UserIds |-> "idle"]
  /\ reg = [u \in UserIds |-> "done"]
  /\ imp = [i \in ImportSlots |-> IdleImport]
  /\ attempts = [p \in Pairs |-> 0]
  /\ delivered = {}

NextEdge ==
  \/ \E r \in EdgeResponses : ImportAtStartup(1, r)
  \/ ImportExisting(1)
  \/ ImportLoop(1)

SpecEdge == InitEdge /\ [][NextEdge]_vars

-----------------------------------------------------------------------------
(* SpecKey: the first run of fetchAndStoreContests over Codeforces answers   *)
(* of two contests and kontests.net answers of one, their names written      *)
(* character by character with and without '-'.                              *)

\* names of a and '-': the empty name, '-' in front, behind, alone, twice
KeyNames == {<<>>, <<"a">>, <<"-">>, <<"a", "-">>, <<"-", "a">>, <<"-", "-">>, <<"a", "a">>}

\* two moments of one day, and a moment of the next
KeyStarts == {9 * DaySeconds, 9 * DaySeconds + 3600, 10 * DaySeconds}

KeyContests ==
  {[id |-> 1, name |-> n, startTimeSeconds |-> t, durationSeconds |-> 7200] :
     n \in KeyNames, t \in KeyStarts}

KeyCodeforces ==
  {[kind |-> "ok", result |-> <<a, b>>] : a \in KeyContests, b \in KeyContests}

KeyCodechef ==
  { [kind |-> "ok",
     result |-> <<[name |-> n, url |-> "cc/1", start_time |-> 9 * MsPerDay,
                   end_time |-> 9 * MsPerDay + 2 * MsPerHour]>>] : n \in KeyNames }

KeyResponses ==
  { [codeforces |-> cf, codechef |-> cc, leetcode |-> Failed,
     kontests |-> [kind |-> "ok", result |-> <<>>]] :
      cf \in KeyCodeforces, cc \in KeyCodechef \cup {Failed} }

NextKey ==
  \/ \E r \in KeyResponses : ImportAtStartup(1, r)
  \/ ImportExisting(1)
  \/ ImportLoop(1)

SpecKey == InitEdge /\ [][NextKey]_vars

-----------------------------------------------------------------------------
(* SpecAbsent: the scheduler of SpecTimed, with a first user for whom no      *)
(* preference row is stored (the registration's write of the defaults         *)
(* failed, and the user has not opened the preferences since).                *)

InitAbsent ==
  /\ InitScheduler(SeedContests)
  /\ prefs = <<DefaultPreferences(2)>>
  /\ reminders \in TimedReminders

SpecAbsent == InitAbsent /\ [][NextTimed]_vars

-----------------------------------------------------------------------------
(* SpecOverlap: the hourly timer after startup, a run of fetchAndStoreContests *)
(* still going when the next hour's run starts: the steps of the two runs      *)
(* interleave at their awaits.                                                 *)

\* the sources' answers: all three platforms list a contest, or all but Codeforces
OverlapResponses ==
  { [codeforces |-> cf, codechef |-> [kind |-> "ok", result |-> <<ccB>>],
     leetcode |-> Failed, kontests |-> [kind |-> "ok", result |-> <<kNext>>]] :
      cf \in {Failed, [kind |-> "ok", result |-> <<cfA, cfOld>>]} }

InitOverlap ==
  /\ clock = ImportClock
  /\ booted = TRUE
  /\ users = <<1, 2>>
  /\ contests \in ImportStores
  /\ prefs = <<DefaultPreferences(1), DefaultPreferences(2)>>
  /\ reminders = <<>>
  /\ faults = 0
  /\ tk = [i \in TickSlots |-> IdleTick]
  /\ rq = [u \in UserIds |-> IdleRequest]
  /\ pq = [u \in UserIds |-> IdlePut]
  /\ gq = [u \in UserIds |-> "idle"]
  /\ reg = [u \in UserIds |-> "done"]
  /\ imp = [i \in ImportSlots |-> IdleImport]
  /\ attempts = [p \in Pairs |-> 0]
  /\ delivered = {}

NextOverlap ==
  \/ \E i \in ImportSlots, r \in OverlapResponses : ImportHourly(i, r)
  \/ \E i \in ImportSlots : ImportExisting(i)
  \/ \E i \in ImportSlots : ImportLoop(i)

SpecOverlap == InitOverlap /\ [][NextOverlap]_vars

-----------------------------------------------------------------------------
(* SpecTicks: the five-minute timer while a run of processContestNotifications *)
(* may still be awaiting: the steps of two runs interleave at their awaits.    *)
(* One contest is stored; the first run starts an hour before it.              *)

\* the timer's last firing before the contest is an hour away
TicksClock == SeedStart - OneHourHi - TickInterval

InitTicks ==
  /\ clock = TicksClock
  /\ booted = TRUE
  /\ users = <<1, 2>>
  /\ contests = SubSeq(SeedContests, 1, 1)
  /\ prefs = <<DefaultPreferences(1), DefaultPreferences(2)>>
  /\ reminders \in {<<>>, <<[userId |-> 1, contestId |-> 1, reminded |-> FALSE]>>}
  /\ faults = 0
  /\ tk = [i \in TickSlots |-> IdleTick]
  /\ rq = [u \in UserIds |-> IdleRequest]
  /\ pq = [u \in UserIds |-> IdlePut]
  /\ gq = [u \in UserIds |-> "idle"]
  /\ reg = [u \in UserIds |-> "done"]
  /\ imp = [i \in ImportSlots |-> IdleImport]
  /\ attempts = [p \in Pairs |-> 0]
  /\ delivered = {}

NextTicks ==
  \/ \E i \in TickSlots : CronTick(i)
  \/ \E i \in TickSlots : TickSteps(i)

SpecTicks == InitTicks /\ [][NextTicks]_vars

-----------------------------------------------------------------------------
(* SpecSources: the first run of fetchAndStoreContests over the answers of   *)
(* kontests.net/code_chef, of LeetCode's GraphQL endpoint and of             *)
(* kontests.net/leet_code, one contest each, for every name below and every  *)
(* way the GraphQL answer can be missing, invalid or empty.                  *)

\* names of CodeChef contests, in pieces: one per type, and one without a marker
CodechefNames ==
  { <<"Starters", " 180 (Rated till 5 stars)">>,
    <<"February ", "Long", " 2025">>,
    <<"April ", "Cook", "-Off 2025">>,
    <<"May ", "Lunchtime", " 2025">>,
    <<"CodeChef Snackdown">> }

\* titles of LeetCode contests with their slugs
LeetcodeTitles ==
  { <<<<"Weekly", " Contest ", "446">>, <<"weekly", "-contest-446">>>>,
    <<<<"Biweekly", " Contest ", "155">>, <<"biweekly", "-contest-155">>>>,
    <<<<"BIWEEKLY", " CONTEST ", "156">>, <<"biweekly", "-contest-156">>>>,
    <<<<"LeetCode Spring Cup">>, <<"spring-cup">>>> }

SourcesCodechef ==
  { [kind |-> "ok",
     result |-> <<[name |-> n, url |-> "cc/1", start_time |-> 9 * MsPerDay,
                   end_time |-> 9 * MsPerDay + 2 * MsPerHour]>>] : n \in CodechefNames }

\* the GraphQL answers: one contest in both lists, no data field, neither list,
\* both lists empty
SourcesGraphQL ==
  { GraphQLAnswer(TRUE, <<c>>, <<c>>) :
      c \in { [title |-> t[1], titleSlug |-> t[2], startTime |-> 11 * DaySeconds,
               duration |-> 5400] : t \in LeetcodeTitles } }
  \cup { [GraphQLAnswer(FALSE, <<>>, <<>>) EXCEPT !.hasData = FALSE],
         [GraphQLAnswer(FALSE, <<>>, <<>>) EXCEPT !.hasAll = FALSE],
         GraphQLAnswer(TRUE, <<>>, <<>>) }

SourcesKontests ==
  { [kind |-> "ok",
     result |-> <<[name |-> t[1], start_time |-> 12 * MsPerDay,
                   end_time |-> 12 * MsPerDay + 90 * MsPerMinute]>>] : t \in LeetcodeTitles }

SourcesResponses ==
  { [codeforces |-> Failed, codechef |-> cc, leetcode |-> lc, kontests |-> k] :
      cc \in SourcesCodechef \cup {Failed},
      lc \in SourcesGraphQL \cup {Failed},
      k \in SourcesKontests \cup {Failed} }

NextSources ==
  \/ \E r \in SourcesResponses : ImportAtStartup(1, r)
  \/ ImportExisting(1)
  \/ ImportLoop(1)

SpecSources == InitEdge /\ [][NextSources]_vars

-----------------------------------------------------------------------------
(* SpecJobs: both periodic jobs and the opt-in requests, the steps of a run   *)
(* of fetchAndStoreContests, of a run of processContestNotifications and of   *)
(* a request interleaved at their awaits; no call fails.                      *)

\* kontests.net/code_chef lists one contest; the other sources list none
JobsResponses ==
  { [codeforces |-> Failed, codechef |-> [kind |-> "ok", result |-> <<ccB>>],
     leetcode |-> Failed, kontests |-> [kind |-> "ok", result |-> <<>>]] }

\* one contest is stored, an hour away; no reminder yet
InitJobs ==
  /\ clock = SeedStart - OneHourHi
  /\ booted = TRUE
  /\ users = <<1, 2>>
  /\ contests = SubSeq(SeedContests, 1, 1)
  /\ prefs = <<DefaultPreferences(1), DefaultPreferences(2)>>
  /\ reminders = <<>>
  /\ faults = 0
  /\ tk = [i \in TickSlots |-> IdleTick]
  /\ rq = [u \in UserIds |-> IdleRequest]
  /\ pq = [u \in UserIds |-> IdlePut]
  /\ gq = [u \in UserIds |-> "idle"]
  /\ reg = [u \in UserIds |-> "done"]
  /\ imp = [i \in ImportSlots |-> IdleImport]
  /\ attempts = [p \in Pairs |-> 0]
  /\ delivered = {}

NextJobs ==
  \/ \E r \in JobsResponses : ImportHourly(1, r)
  \/ ImportExisting(1)
  \/ ImportLoop(1)
  \/ TickStart(1)
  \/ TickSteps(1)
  \/ \E u \in PostUsers : PostStart(u, 1)
  \/ PostSteps

SpecJobs == InitJobs /\ [][NextJobs]_vars

-----------------------------------------------------------------------------
(* What the claims say, in the claims' own terms *)

\* the preference row the scheduler reads for user u (the user has one)
PrefOf(u) == prefs[GetNotificationPreferences(prefs, u)]

\* the notify flag of a platform
ClaimFlag(row, platform) ==
  \/ platform = "codeforces" /\ row.notifyCodeforces
  \/ platform = "codechef" /\ row.notifyCodechef
  \/ platform = "leetcode" /\ row.notifyLeetcode

\* the window of a timing, in minutes
ClaimWindow(timing, t) ==
  \/ timing = "1hour" /\ 50 * MsPerMinute < t /\ t <= 60 * MsPerMinute
  \/ timing = "3hours" /\ 170 * MsPerMinute < t /\ t <= 180 * MsPerMinute
  \/ timing = "1day" /\ 1380 * MsPerMinute < t /\ t <= 1440 * MsPerMinute

TimeUntilStart(i, c) == contests[c].startTime - tk[i].now

\* C3: in a scheduler tick a (user, contest) pair qualifies exactly when the user's
\* emailNotifications is true, the notify flag of the contest's platform is true and
\* timeUntilStart is in the window of the user's timing (50min < t <= 60min for 1hour,
\* 170min < t <= 180min for 3hours, 1380min < t <= 1440min for 1day); with 1hour a
\* contest 55 minutes away qualifies, one 65 or 40 minutes away does not.
C3_QualifiesIffInWindow ==
  \A i \in TickSlots : \A pair \in tk[i].evald :
    LET row == PrefOf(pair[1])
        t == TimeUntilStart(i, pair[2])
        enabled == row.emailNotifications /\ ClaimFlag(row, contests[pair[2]].platform)
    IN /\ row.notificationTiming \in NotificationTimings =>
            (pair \in tk[i].qual <=> enabled /\ ClaimWindow(row.notificationTiming, t))
       /\ row.notificationTiming = "1hour" /\ enabled =>
            /\ t = 55 * MsPerMinute => pair \in tk[i].qual
            /\ t \in {65 * MsPerMinute, 40 * MsPerMinute} => pair \notin tk[i].qual

\* a tick has found a pair 55 minutes before the start to qualify under 1hour
C3_Witness ==
  \E pair \in tk[1].qual :
    /\ PrefOf(pair[1]).notificationTiming = "1hour"
    /\ TimeUntilStart(1, pair[2]) = 55 * MsPerMinute

\* the user's preferences qualify for the contest: email on, the platform's flag on,
\* one of the three timings
PreferencesQualify(u, c) ==
  /\ GetNotificationPreferences(prefs, u) # 0
  /\ PrefOf(u).emailNotifications
  /\ ClaimFlag(PrefOf(u), contests[c].platform)
  /\ PrefOf(u).notificationTiming \in NotificationTimings

\* C5: with a tick every 5 minutes, for a user whose preferences qualify and a contest
\* stored before the user's window opens (every contest of this specification is: it
\* is stored at the clock's origin, more than a day before its start), the email of
\* the pair is dispatched exactly once before the contest starts: never twice at any
\* moment, and once by the time the contest has started.
C5_DispatchedExactlyOnce ==
  \A pair \in Pairs :
    /\ attempts[pair] <= 1
    /\ clock >= contests[pair[2]].startTime /\ PreferencesQualify(pair[1], pair[2])
         => attempts[pair] = 1

\* a second tick inside the window finds the pair already sent, after one dispatch
C5_Witness ==
  \E pair \in tk[1].seen :
    /\ attempts[pair] = 1
    /\ PreferencesQualify(pair[1], pair[2])
    /\ ClaimWindow(PrefOf(pair[1]).notificationTiming, TimeUntilStart(1, pair[2]))


\* the rows of the reminder store for a pair
RowsOf(pair) ==
  {r \in DOMAIN reminders : reminders[r].userId = pair[1] /\ reminders[r].contestId = pair[2]}

Sent(pair) == \E r \in RowsOf(pair) : reminders[r].reminded

\* C4: across scheduler ticks that do not overlap, with preference updates served
\* between any two steps, at most one email dispatch is attempted per (user, contest)
\* pair; and a tick that comes to a pair whose reminder is already sent does nothing
\* for it: no dispatch, no store write.
C4_IdempotentDispatch ==
  /\ [](\A pair \in Pairs : attempts[pair] <= 1)
  /\ [][\A i \in TickSlots :
          /\ tk[i].pc \in {"prefs", "reminder"}
          /\ Sent(TickPair(tk[i]))
          /\ tk'[i] # tk[i]
          => /\ reminders' = reminders
             /\ attempts' = attempts
             /\ tk'[i].pc \notin {"create", "update", "send"}]_vars

\* a tick inside the window has found the pair already sent, one dispatch made
C4_Witness ==
  \E pair \in tk[1].seen :
    /\ attempts[pair] = 1
    /\ pair \in tk[1].qual
    /\ Sent(pair)

\* C7: a reminder row with reminded = true (only the scheduler writes that value)
\* implies that a send for its pair has returned success.
C7_SentOnlyAfterSuccess ==
  \A r \in DOMAIN reminders :
    reminders[r].reminded => <<reminders[r].userId, reminders[r].contestId>> \in delivered

\* the position of x in a sequence without repetitions
Pos(seq, x) == CHOOSE k \in DOMAIN seq : seq[k] = x

\* pair a is handled before pair b by run t
HandledBefore(t, a, b) ==
  \/ Pos(t.list, a[2]) < Pos(t.list, b[2])
  \/ a[2] = b[2] /\ Pos(t.us, a[1]) < Pos(t.us, b[1])

\* C8: an error raised while one user is handled for one contest is caught: a run
\* that ends normally has evaluated every (contest, user) pair of its lists, and has
\* dispatched for every pair that qualified and met no error of its own, unless the
\* pair's reminder was already sent.
C8_ErrorDoesNotBlock ==
  \A i \in TickSlots :
    tk[i].pc = "idle" /\ tk[i].result = "done" =>
      /\ \A c \in Range(tk[i].list), u \in Range(tk[i].us) : <<u, c>> \in tk[i].evald
      /\ \A pair \in tk[i].qual \ tk[i].errs : pair \in tk[i].disp \cup tk[i].seen

\* a run that ended normally has dispatched for a pair it handled after a pair that
\* raised an error
C8_Witness ==
  /\ tk[1].pc = "idle" /\ tk[1].result = "done"
  /\ \E e \in tk[1].errs, d \in tk[1].disp : HandledBefore(tk[1], e, d)

\* C9: the reminder store holds at most one row per (userId, contestId) pair.
C9_OneReminderPerPair ==
  \A pair \in Pairs : Cardinality(RowsOf(pair)) <= 1

-----------------------------------------------------------------------------
(* The importer's claims *)

\* the run of slot i has the batch of the run before it, which ended without
\* a storage error
Repeats(i) ==
  /\ imp[i].prevResult \in {"done", "invalid"}
  /\ imp[i].fetched = imp[i].prev

\* C1: a run of fetchAndStoreContests on the batch of the run before it inserts
\* nothing and leaves the stored contests as that run left them
C1_SecondRunInsertsNothing ==
  /\ [](\A i \in ImportSlots : Repeats(i) => imp[i].newContestsCount = 0)
  /\ [][\A i \in ImportSlots : Repeats(i) => contests' = contests]_vars

\* a second run has gone through a batch of two or more contests that the
\* first run stored
C1_Witness ==
  /\ imp[1].pc = "idle" /\ imp[1].result = "done"
  /\ imp[1].runs = 2 /\ imp[1].prevResult = "done"
  /\ imp[1].fetched = imp[1].prev
  /\ Len(imp[1].fetched) >= 2
  /\ \A k \in DOMAIN imp[1].fetched : imp[1].fetched[k] \in Range(contests)

\* C2: no two stored contests have the same deduplication key
C2_NoTwoRowsSameKey ==
  \A j, k \in DOMAIN contests :
    j # k => ContestKey(contests[j]) # ContestKey(contests[k])

\* the records of a platform in a batch
OfPlatform(batch, platform) == {k \in DOMAIN batch : batch[k].platform = platform}

\* C6: a fetcher whose requests failed contributes no record to the batch
C6_FailedFetcherContributesNothing ==
  \A i \in ImportSlots :
    imp[i].pc # "idle" =>
      /\ imp[i].resp.codeforces.kind # "ok" => OfPlatform(imp[i].fetched, "codeforces") = {}
      /\ imp[i].resp.codechef.kind # "ok" => OfPlatform(imp[i].fetched, "codechef") = {}
      /\ (imp[i].resp.leetcode.kind # "ok" /\ imp[i].resp.kontests.kind # "ok")
           => OfPlatform(imp[i].fetched, "leetcode") = {}

\* the keys of the contests that were stored when the run of slot i read them
KeysRead(i) == {ContestKey(contests[j]) : j \in 1..imp[i].nread}

\* C10: no step changes or removes a stored contest, and a run stores no
\* contest with the key of one that was stored when the run read the store
C10_FirstWriteWins ==
  /\ [][\A j \in DOMAIN contests :
          j \in DOMAIN contests' /\ contests'[j] = contests[j]]_vars
  /\ [](\A i \in ImportSlots : \A j \in DOMAIN contests :
          j > imp[i].nread => ContestKey(contests[j]) \notin KeysRead(i))

\* a run has passed over a fetched contest that has the key of a stored one
\* and other fields than it
C10_Witness ==
  /\ imp[1].pc = "loop"
  /\ \E k \in 1..(imp[1].k - 1) :
       /\ ContestKey(imp[1].fetched[k]) \in KeysRead(1)
       /\ imp[1].fetched[k] \notin Range(contests)

-----------------------------------------------------------------------------
(* The claims about preferences *)

\* the preference rows of user u
PreferenceRowsOf(u) == {p \in DOMAIN prefs : prefs[p].userId = u}

\* C11: the preference store holds at most one row per user
C11_OnePreferenceRowPerUser ==
  \A u \in UserIds : Cardinality(PreferenceRowsOf(u)) <= 1

-----------------------------------------------------------------------------
(* The claims about the fetched records *)

\* C12: every stored contest ends after it starts
C12_EndsAfterStart ==
  \A j \in DOMAIN contests : contests[j].endTime > contests[j].startTime

\* C13: two contest records have the same deduplication key exactly when they have
\* the same platform, the same name and the same start-time ISO string (the string
\* of the same instant, to the millisecond); names may contain '-'
C13_KeyCollisionFree ==
  \A i \in ImportSlots : \A a, b \in Range(imp[i].fetched) :
    ContestKey(a) = ContestKey(b)
      <=> a.platform = b.platform /\ a.name = b.name /\ a.startTime = b.startTime

\* two contests of one platform and start whose names differ in where the '-' is
\* have both been stored, and so has a contest of another platform with the name
\* and start of one of them
C13_Witness ==
  /\ imp[1].result = "done"
  /\ Len(contests) = 3
  /\ \E a, b \in Range(imp[1].fetched) :
       /\ a.platform = b.platform /\ a.startTime = b.startTime
       /\ a.name = <<"a", "-">> /\ b.name = <<"-", "a">>
       /\ a \in Range(contests) /\ b \in Range(contests)
  /\ \E a, b \in Range(imp[1].fetched) :
       a.platform # b.platform /\ a.name = b.name /\ a.startTime = b.startTime

-----------------------------------------------------------------------------
(* More claims about the scheduler *)

\* C14: a user without a preference row is taken to have the defaults: a tick that
\* handles the user for a contest whose timeUntilStart is in the 1hour window finds
\* the pair to qualify
C14_AbsentMeansDefaults ==
  \A i \in TickSlots : \A pair \in tk[i].evald :
    /\ GetNotificationPreferences(prefs, pair[1]) = 0
    /\ ClaimWindow("1hour", TimeUntilStart(i, pair[2]))
    => pair \in tk[i].qual

-----------------------------------------------------------------------------
(* More claims about the fetchers *)

\* the platform, name and start of every contest the answers of the sources carry
Origins(r) ==
  (IF r.codeforces.kind = "ok"
     THEN {<<"codeforces", c.name, c.startTimeSeconds * 1000>> : c \in Range(r.codeforces.result)}
     ELSE {})
  \cup (IF r.codechef.kind = "ok"
          THEN {<<"codechef", c.name, c.start_time>> : c \in Range(r.codechef.result)}
          ELSE {})
  \cup (IF r.leetcode.kind = "ok"
          THEN {<<"leetcode", c.title, c.startTime * 1000>> :
                  c \in Range(r.leetcode.topTwoContests) \cup Range(r.leetcode.allContests)}
          ELSE {})
  \cup (IF r.kontests.kind = "ok"
          THEN {<<"leetcode", c.name, c.start_time>> : c \in Range(r.kontests.result)}
          ELSE {})

\* C15: every record a run fetched is a contest of a source's answer; none is made up
C15_NoSynthesizedData ==
  \A i \in ImportSlots :
    imp[i].pc # "idle" =>
      \A c \in Range(imp[i].fetched) :
        <<c.platform, c.name, c.startTime>> \in Origins(imp[i].resp)

\* the markers of a Codeforces contest type, as the lower-case substrings looked for
CodeforcesMarkers(type) ==
  CASE type = "div1" -> {"div. 1", "div.1", "div 1"}
    [] type = "div2" -> {"div. 2", "div.2", "div 2"}
    [] type = "div3" -> {"div. 3", "div.3", "div 3"}
    [] type = "div4" -> {"div. 4", "div.4", "div 4"}
    [] type = "educational" -> {"educational"}
    [] type = "global" -> {"global"}

\* the contest types that have markers, in the order the markers are looked for
MarkedTypes == <<"div1", "div2", "div3", "div4", "educational", "global">>

\* the name holds a marker of the type, whatever the case of its letters
MatchesType(name, type) ==
  \E m \in CodeforcesMarkers(type) : Includes(ToLowerCase(name), m)

CodeforcesRows == {contests[j] : j \in {k \in DOMAIN contests : contests[k].platform = "codeforces"}}

\* C16 as stated: a Codeforces contest whose name holds a marker of a type has that
\* type and a difficulty, and 'Codeforces Round 999 (Div. 2)' is div2, '1600-1899'
C16_MarkerGivesType ==
  \A c \in CodeforcesRows :
    /\ \A t \in Range(MarkedTypes) :
         MatchesType(c.name, t) => c.contestType = t /\ c.difficulty # "undefined"
    /\ c.name = <<"Codeforces Round 999 (", "Div. 2", ")">>
         => c.contestType = "div2" /\ c.difficulty = "1600-1899"

\* C16, amended: a Codeforces contest whose name holds a marker has the type of the
\* first type, in the order div1, div2, div3, div4, educational, global, of which it
\* holds a marker, and a difficulty; 'Codeforces Round 999 (Div. 2)' is div2,
\* '1600-1899'
C16_FirstMarkerGivesType ==
  \A c \in CodeforcesRows :
    /\ \A k \in DOMAIN MarkedTypes :
         (MatchesType(c.name, MarkedTypes[k])
            /\ \A h \in 1..(k - 1) : ~MatchesType(c.name, MarkedTypes[h]))
         => c.contestType = MarkedTypes[k] /\ c.difficulty # "undefined"
    /\ c.name = <<"Codeforces Round 999 (", "Div. 2", ")">>
         => c.contestType = "div2" /\ c.difficulty = "1600-1899"

\* an educational round rated for Div. 2 is stored, as a div2 contest
C16_Witness ==
  \E c \in CodeforcesRows :
    /\ MatchesType(c.name, "educational") /\ MatchesType(c.name, "div2")
    /\ c.contestType = "div2" /\ c.difficulty = "1600-1899"

\* Math.round of a non-negative number of milliseconds counted in minutes
RoundedMinutes(ms) == (ms + 30000) \div MsPerMinute

\* C17: the durationMinutes of every stored contest that does not end before it
\* starts is its length in seconds divided by 60 and rounded to the nearest integer
C17_MinutesRounded ==
  \A j \in DOMAIN contests :
    (contests[j].startTime # NaN /\ contests[j].endTime # NaN
       /\ contests[j].endTime >= contests[j].startTime)
    => contests[j].durationMinutes
         = RoundedMinutes(contests[j].endTime - contests[j].startTime)

\* "<h>h <m>m" for s seconds without its zero components
WithoutZeroComponents(s) ==
  LET h == s \div 3600
      m == (s % 3600) \div 60
  IN (IF h > 0 THEN <<ToString(h), "h">> ELSE <<>>)
       \o (IF h > 0 /\ m > 0 THEN <<" ">> ELSE <<>>)
       \o (IF m > 0 THEN <<ToString(m), "m">> ELSE <<>>)

\* C18: the duration text of every stored contest that does not end before it
\* starts is "<h>h <m>m" without its zero components, and holds no component 0
C18_NoZeroComponent ==
  \A j \in DOMAIN contests :
    (contests[j].startTime # NaN /\ contests[j].endTime # NaN
       /\ contests[j].endTime >= contests[j].startTime)
    => /\ contests[j].duration
            = WithoutZeroComponents((contests[j].endTime - contests[j].startTime) \div 1000)
       /\ \A k \in DOMAIN contests[j].duration : contests[j].duration[k] # "0"

-----------------------------------------------------------------------------
(* The claim about failed sends *)

\* C19: a pair for which a dispatch was attempted and none succeeded is not left
\* with a sent reminder, and no later run inside the window passes it over as
\* already sent: the run attempts the dispatch again
C19_FailedSendRetried ==
  \A pair \in Pairs :
    (attempts[pair] >= 1 /\ pair \notin delivered /\ \A i \in TickSlots : tk[i].pc # "send")
    => /\ ~Sent(pair)
       /\ \A i \in TickSlots : pair \notin tk[i].seen

-----------------------------------------------------------------------------
(* The claim about overlapping runs *)

\* the rows a run leaves that reads the store as rows and then handles the batch
\* alone
SingleRun(rows, batch) ==
  rows \o Filter(batch, {c \in Range(batch) : ContestKey(c) \notin ExistingKeys(rows)})

\* the store as the earlier of the two runs read it
RowsAtStart == SubSeq(contests, 1, Min({imp[i].nread : i \in ImportSlots}))

\* a run read the store before the other run, which had read it no later, had
\* inserted all of its contests
Overlapped ==
  \E i, j \in ImportSlots :
    /\ i # j
    /\ imp[i].nread <= imp[j].nread
    /\ imp[j].nread < imp[i].nread + imp[i].newContestsCount

\* C20: when two runs that fetched the same contests overlap and both have ended,
\* the store holds the rows a single run would have left: no contest twice
C20_DoubleRunHarmless ==
  ( /\ \A i \in ImportSlots :
         imp[i].pc = "idle" /\ imp[i].result = "done" /\ imp[i].runs = 1
    /\ imp[1].fetched = imp[2].fetched
    /\ Overlapped )
  => contests = SingleRun(RowsAtStart, imp[1].fetched)

-----------------------------------------------------------------------------
(* The claim about overlapping ticks *)

\* C21: two runs of the scheduler that overlap never both dispatch an email for
\* the same (user, contest) pair
C21_OverlapDispatchesOnce ==
  \A pair \in Pairs : ~(pair \in tk[1].disp /\ pair \in tk[2].disp)

-----------------------------------------------------------------------------
(* The claims about errors *)

\* C22: no run of a periodic job ends by rejecting: whichever call fails, the run
\* of processContestNotifications or of fetchAndStoreContests returns normally
C22_NoRunRejects ==
  /\ \A i \in TickSlots : tk[i].result # "rejected"
  /\ \A i \in ImportSlots : imp[i].result # "rejected"

\* C23: a preference row whose notificationTiming is none of 1hour, 3hours, 1day
\* counts as 1hour: with email and the platform flag enabled, its user qualifies
\* for a contest whose timeUntilStart is in the 1hour window
C23_UnknownTimingIsOneHour ==
  \A i \in TickSlots : \A pair \in tk[i].evald :
    LET row == PrefOf(pair[1])
    IN ( /\ row.notificationTiming \notin NotificationTimings
         /\ row.emailNotifications
         /\ ClaimFlag(row, contests[pair[2]].platform)
         /\ ClaimWindow("1hour", TimeUntilStart(i, pair[2])) )
       => pair \in tk[i].qual

\* C24: a fetched record whose start time does not parse does not fail the run:
\* when the run is over, every other contest of its batch is in the store
C24_MalformedRecordSkipped ==
  \A i \in ImportSlots :
    ( /\ imp[i].pc = "idle" /\ imp[i].result \in {"done", "invalid"}
      /\ \E c \in Range(imp[i].fetched) : c.startTime = NaN )
    => \A c \in Range(imp[i].fetched) :
         c.startTime # NaN => ContestKey(c) \in ExistingKeys(contests)

-----------------------------------------------------------------------------
(* The claims about types and sources *)

\* the markers the fetchers look for, per platform
PlatformMarkers(platform) ==
  CASE platform = "codeforces" ->
         UNION {CodeforcesMarkers(MarkedTypes[k]) : k \in DOMAIN MarkedTypes}
    [] platform = "codechef" ->
         {"long", "challenge", "cook", "cook-off", "lunch", "lunchtime", "starters"}
    [] platform = "leetcode" -> {"weekly", "biweekly"}

\* C25: a fetched contest whose name holds no marker of its platform has
\* contestType other and an undefined difficulty
C25_UnmatchedIsOther ==
  \A i \in ImportSlots : \A c \in Range(imp[i].fetched) :
    (\A m \in PlatformMarkers(c.platform) : ~Includes(ToLowerCase(c.name), m))
    => c.contestType = "other" /\ c.difficulty = "undefined"

\* the GraphQL answer is valid and lists a contest
PrimaryYields(r) ==
  /\ r.leetcode.kind = "ok" /\ r.leetcode.hasData
  /\ \/ r.leetcode.hasTopTwo /\ r.leetcode.topTwoContests # <<>>
     \/ r.leetcode.hasAll /\ r.leetcode.allContests # <<>>

\* the records of the contests kontests.net/leet_code lists
SecondaryRecords(r) ==
  IF r.kontests.kind = "ok"
  THEN {KontestsRecord("leetcode", "lc/", c) : c \in Range(r.kontests.result)}
  ELSE {}

\* the LeetCode records of a batch
LeetcodeRecords(batch) == {c \in Range(batch) : c.platform = "leetcode"}

\* C28: LeetCode's secondary source is used whenever the primary source fails or
\* answers with an invalid or empty result: the contests it lists are then the
\* LeetCode contests of the batch; and none of them is in the batch when the
\* primary source yielded a valid, non-empty result
C28_SecondaryWhenPrimaryYieldsNothing ==
  \A i \in ImportSlots :
    imp[i].pc \in {"existing", "loop"} =>
      /\ (~PrimaryYields(imp[i].resp) /\ imp[i].resp.kontests.kind = "ok")
           => LeetcodeRecords(imp[i].fetched) = SecondaryRecords(imp[i].resp)
      /\ PrimaryYields(imp[i].resp)
           => LeetcodeRecords(imp[i].fetched) \cap SecondaryRecords(imp[i].resp) = {}

\* C30: a LeetCode contest whose title or slug holds 'biweekly' has contestType
\* biweekly, and one that holds 'weekly' and not 'biweekly' has contestType weekly
C30_BiweeklyIsBiweekly ==
  \A i \in ImportSlots :
    imp[i].pc \in {"existing", "loop"} /\ imp[i].resp.leetcode.kind = "ok" =>
      \A c \in Range(imp[i].resp.leetcode.topTwoContests) :
        LET bi == \/ Includes(ToLowerCase(c.title), "biweekly")
                  \/ Includes(ToLowerCase(c.titleSlug), "biweekly")
            we == \/ Includes(ToLowerCase(c.title), "weekly")
                  \/ Includes(ToLowerCase(c.titleSlug), "weekly")
        IN /\ bi => LeetcodeRecord(c).contestType = "biweekly"
           /\ (we /\ ~bi) => LeetcodeRecord(c).contestType = "weekly"
           /\ LeetcodeRecord(c) \in Range(imp[i].fetched)

-----------------------------------------------------------------------------
(* The claims about the reminders' life *)

\* the reminder of a pair as the store answers for it: none, pending or sent
ReminderState(rows, pair) ==
  LET r == GetContestReminderByUserAndContest(rows, pair[1], pair[2])
  IN IF r = 0 THEN "none" ELSE IF rows[r].reminded THEN "sent" ELSE "pending"

\* C26: in every step, the reminder of a pair stays as it is or moves from none to
\* pending, from none to sent or from pending to sent; every row stays in the
\* store, with its pair, and its reminded never changes from true to false; and an
\* opt-in request that finds a row of its pair answers 409 and writes nothing
C26_ReminderLifecycle ==
  [][ /\ \A pair \in Pairs :
           \/ ReminderState(reminders', pair) = ReminderState(reminders, pair)
           \/ <<ReminderState(reminders, pair), ReminderState(reminders', pair)>>
                \in {<<"none", "pending">>, <<"none", "sent">>, <<"pending", "sent">>}
      /\ Len(reminders') >= Len(reminders)
      /\ \A r \in DOMAIN reminders :
           /\ reminders'[r].userId = reminders[r].userId
           /\ reminders'[r].contestId = reminders[r].contestId
           /\ reminders[r].reminded => reminders'[r].reminded
      /\ \A u \in UserIds :
           ( /\ rq[u].pc = "check" /\ rq'[u] # rq[u] /\ faults' = faults
             /\ RowsOf(<<u, rq[u].contestId>>) # {} )
           => rq'[u].status = 409 /\ rq'[u].pc = "idle" /\ reminders' = reminders
    ]_vars

\* an opt-in request for a pair whose reminder is sent was answered 409, and the
\* reminder is still sent
C26_Witness ==
  \E u \in UserIds :
    /\ rq[u].status = 409 /\ rq[u].pc = "idle"
    /\ ReminderState(reminders, <<u, rq[u].contestId>>) = "sent"

-----------------------------------------------------------------------------
(* The claim about what each job writes *)

\* C27: a step of fetchAndStoreContests leaves users, preferences and reminders
\* unchanged; a step of processContestNotifications leaves contests, users and
\* preferences unchanged; and a reminder row that a step creates or modifies is a
\* row of the user the scheduler is handling in that step, or of the user whose
\* opt-in request the step serves
C27_JobsUncoupled ==
  [][ /\ imp' # imp => users' = users /\ prefs' = prefs /\ reminders' = reminders
      /\ tk' # tk => contests' = contests /\ users' = users /\ prefs' = prefs
      /\ \A r \in DOMAIN reminders' :
           (r \notin DOMAIN reminders \/ reminders'[r] # reminders[r])
           => \/ \E i \in TickSlots :
                   /\ tk'[i] # tk[i] /\ tk[i].pc \in {"create", "update"}
                   /\ reminders'[r].userId = TickPair(tk[i])[1]
              \/ \E u \in UserIds :
                   /\ rq'[u] # rq[u] /\ rq[u].pc = "create"
                   /\ reminders'[r].userId = u
    ]_vars

\* the importer has stored a contest, a request has stored a reminder of its user
\* and the scheduler has stored one of the other user
C27_Witness ==
  /\ Len(contests) > 1
  /\ \E r \in DOMAIN reminders : reminders[r].userId = 1 /\ ~reminders[r].reminded
  /\ \E r \in DOMAIN reminders : reminders[r].userId = 2 /\ reminders[r].reminded

-----------------------------------------------------------------------------
(* The claim about opt-in and preferences *)

\* C29: a run dispatches for a pair only when the preferences of the pair's user
\* qualify at that run (email on, the platform's flag on, timeUntilStart in the
\* window of the timing), whether or not a pending reminder is stored; and for a
\* pair whose user has email off or the platform's flag off, no dispatch is made
\* and no reminder of the pair is sent: a pending one stays pending
C29_OptInKeepsPreferences ==
  /\ \A i \in TickSlots : \A pair \in tk[i].disp :
       /\ PreferencesQualify(pair[1], pair[2])
       /\ ClaimWindow(PrefOf(pair[1]).notificationTiming, TimeUntilStart(i, pair[2]))
  /\ \A pair \in Pairs :
       ~(PrefOf(pair[1]).emailNotifications
           /\ ClaimFlag(PrefOf(pair[1]), contests[pair[2]].platform))
       => /\ attempts[pair] = 0
          /\ pair \notin delivered
          /\ ~Sent(pair)

\* a run is over that came, inside the window of the user's timing, to a pair
\* with a pending reminder whose user has email or the platform's flag off: the
\* reminder is still pending
C29_Witness ==
  \E i \in TickSlots : \E pair \in tk[i].evald :
    /\ tk[i].pc = "idle" /\ tk[i].result = "done"
    /\ ~(PrefOf(pair[1]).emailNotifications
          /\ ClaimFlag(PrefOf(pair[1]), contests[pair[2]].platform))
    /\ ClaimWindow(PrefOf(pair[1]).notificationTiming, TimeUntilStart(i, pair[2]))
    /\ ReminderState(reminders, pair) = "pending"

====
